---- MODULE Spec2Model ----
(***************************************************************************)
(* The image ingestion pipeline of honducasa-app: thumbnail generation,    *)
(* the optimized parallel uploader, its original-only fallback, the edit   *)
(* page's submit handler that calls them, and the image-format helpers.    *)
(*                                                                         *)
(* JavaScript runs one continuation at a time, so every action below is    *)
(* one external event (an image decode/encode finishing, a storage put     *)
(* settling, a database answer) together with all the continuations the    *)
(* event resumes, up to the next await on an external event.               *)
(***************************************************************************)
EXTENDS Integers, Sequences, FiniteSets, TLC

(***************************************************************************)
(* Bounds of the model.                                                    *)
(***************************************************************************)
MaxFiles == 2

\* First clock reading of a run.
Epoch == 100

(***************************************************************************)
(* Values.                                                                 *)
(***************************************************************************)
Undefined == "undefined"

\* The four fields of ImageData, in declaration order.
Sizes == <<"original", "small", "medium", "large">>

SizeSet == {Sizes[k] : k \in 1..4}

\* The three resized variants generateThumbnails produces.
ThumbSizes == {"small", "medium", "large"}

\* A thrown or returned JavaScript error value: an Error instance with a
\* message, or some other value.
ErrorValue(msg) == [isError |-> TRUE, message |-> msg]

RawValue == [isError |-> FALSE, message |-> Undefined]

\* error instanceof Error ? error.message : dflt
MessageOr(e, dflt) == IF e.isError THEN e.message ELSE dflt

\* The rejections of generateThumbnail.
ThumbnailErrors ==
  { ErrorValue("Failed to load image"),
    ErrorValue("Failed to get canvas context"),
    ErrorValue("Failed to generate thumbnail blob") }

\* The name of the i-th selected file, as its dot-separated segments.
FileName(i) == IF i = 2 THEN <<"plan", "tar", "gz">> ELSE IF i = 1 THEN <<"photo", "jpg">> ELSE <<"img", "jpg">>

\* file.name.split('.').pop()
FileExt(name) == name[Len(name)]

PropertyId == "7"

Indices(n) == 0..(n - 1)

(***************************************************************************)
(* State.                                                                  *)
(***************************************************************************)
VARIABLES
  caller,       \* "onSubmit" (the edit page) or "direct" (a call of the exported uploader)
  observer,     \* the onProgress argument: "none", "ok" (returns) or "throws"
  clientOk,     \* whether createClient() returns a client (it throws otherwise)
  nFiles,       \* number of files of the batch (files.length)
  existing,     \* property.images as the submit handler read it
  now,          \* the last value Date.now() returned
  pc,           \* where the call is suspended
  progressMap,  \* index -> UploadProgress
  snapshot,     \* the argument of the last onProgress call
  notified,     \* number of onProgress calls so far
  thumbs,       \* index -> variant -> "pending" | "ready": generateThumbnail promises
  stamp,        \* index -> timestamp of the optimized task (0 before it starts)
  puts,         \* index -> size -> state of the storage put of the optimized task
  taskRes,      \* index -> what the optimized per-file task returned
  optResult,    \* what uploadImagesOptimized returned, or that it raised
  fbStamp,      \* index -> timestamp of the fallback task
  fbPuts,       \* index -> state of the single fallback put
  fbRes,        \* index -> what the fallback per-file task returned
  completion,   \* history: the indices of the per-file tasks in the order they returned
  result,       \* what uploadImagesWithFallback returned, or that it raised
  dbUpdate,     \* the update the edit page issued to the properties table
  toasts        \* messages shown by the edit page, oldest first

\* The image-format helpers, exercised on their own.
VARIABLES
  imageList,    \* the argument of normalizeImageData
  normalized,   \* normalizeImageData(imageList)
  renormalized, \* normalizeImageData(normalized)
  lookup,       \* the last getImageUrl comparison
  phase         \* "input", "normalized" or "renormalized"

\* generateThumbnails, exercised on one decoded image.
VARIABLES
  imgWidth,     \* img.width of the decoded source image (0: none decoded)
  imgHeight,    \* img.height
  canvas        \* variant -> the canvas generateThumbnail sized for it

pipelineVars == <<caller, observer, clientOk, nFiles, existing, now, pc, progressMap, snapshot,
                  notified, thumbs, stamp, puts, taskRes, optResult, fbStamp, fbPuts, fbRes,
                  completion, result, dbUpdate, toasts>>

utilVars == <<imageList, normalized, renormalized, lookup, phase>>

sizingVars == <<imgWidth, imgHeight, canvas>>

\* The storage paths of successive upload calls for one property.
VARIABLES
  wall,         \* the value Date.now() returns, as time passes between the calls
  derived       \* per upload call so far: its uploader and the paths it derived

pathVars == <<wall, derived>>

\* The auth store (useAuthStore) and its collaborators.
VARIABLES
  user,            \* the store's user
  session,         \* the store's session
  loading,         \* the store's loading flag
  initialized,     \* the store's initialized flag
  initCalls,       \* initialize() calls made so far
  pendingInits,    \* initialize() calls suspended at getSession()
  finishedInits,   \* initialize() calls that have ended
  subscriptions,   \* listeners registered with onAuthStateChange
  logoutCalls,     \* logout() calls made so far
  pendingLogouts   \* logout() calls suspended at signOut()

authVars == <<user, session, loading, initialized, initCalls, pendingInits, finishedInits,
              subscriptions, logoutCalls, pendingLogouts>>

\* The favorite buttons of a PropertyCard and of the property detail page.
VARIABLES
  cardUser,           \* PropertyCard: whether its user state holds a user
  cardIsFavorite,     \* PropertyCard: isFavorite
  isLoadingFavorite,  \* PropertyCard: isLoadingFavorite
  cardRequest,        \* PropertyCard: the toggleFavorite call awaiting its request
  pageUser,           \* detail page: whether the auth store holds a user
  pageIsFavorite,     \* detail page: isFavorite
  pageRequests,       \* detail page: the toggleFavorite calls awaiting their request
  redirects,          \* router.push('/login') calls so far
  toggled             \* the toggleFavorite calls whose request has settled

favVars == <<cardUser, cardIsFavorite, isLoadingFavorite, cardRequest, pageUser,
             pageIsFavorite, pageRequests, redirects, toggled>>

\* The address search box (MapboxSearch, MapboxLocationPicker).
VARIABLES
  searchQuery,     \* searchQuery
  searchResults,   \* searchResults, with the geocoding request they came from
  showResults,     \* showResults
  isSearching,     \* isSearching
  isSelected,      \* isSelected
  searchError,     \* whether error holds a message
  searchTimeout,   \* the value the pending debounce timer will search for
  fetches,         \* the geocoding requests in flight
  requested,       \* geocoding requests issued so far
  lastAction,      \* the most recent user action on the search box
  actions          \* user actions on the search box so far

searchVars == <<searchQuery, searchResults, showResults, isSearching, isSelected,
                searchError, searchTimeout, fetches, requested, lastAction, actions>>

widgetVars == <<favVars, searchVars>>

\* The parts of the application outside the upload pipeline.
sideVars == <<pathVars, authVars, widgetVars>>

vars == <<pipelineVars, utilVars, sizingVars, sideVars>>

None == [kind |-> "none"]

Raised == [kind |-> "raised"]

\* An UploadResult.
Returned(ok, imgs, errs) == [kind |-> "returned", success |-> ok, images |-> imgs, errors |-> errs]

(***************************************************************************)
(* Storage paths.                                                          *)
(***************************************************************************)
\* `${propertyId}/${timestamp}`
BaseFileName(propertyId, timestamp) == propertyId \o "/" \o ToString(timestamp)

\* Faulty variant: every variant stored under the path of the original.
SuffixDropped(size) == ""

Suffix(size) == IF size = "original" THEN "" ELSE "_" \o size

\* `${baseFileName}.${fileExt}`, `${baseFileName}_small.${fileExt}`, ...
PutPath(base, size, ext) == base \o Suffix(size) \o "." \o ext

\* The ImageData an optimized task returns.
OptimizedRecord(base, ext) == [s \in SizeSet |-> PutPath(base, s, ext)]

\* The ImageData a fallback task returns.
FallbackRecord(originalPath) == [s \in SizeSet |-> originalPath]

\* Faulty variant: the timestamp without the index.
TimestampSansIndex(reading, index) == reading

\* const timestamp = Date.now() + index
Timestamp(reading, index) == reading + index

\* The readings of Date.now() taken by the tasks of one files.map loop, started
\* one after the other within a millisecond: the clock shows `from` until it
\* advances, before the reading of task tickAt (never, when tickAt is past the
\* last task).
Reading(from, tickAt, i) == IF i >= tickAt THEN from + 1 ELSE from

(***************************************************************************)
(* Progress tracking.                                                      *)
(***************************************************************************)
InitialProgress(n) ==
  [i \in Indices(n) |->
     [imageIndex |-> i, fileName |-> FileName(i), progress |-> 0,
      status |-> "generating", error |-> Undefined]]

\* Object.values(progressMap): the entries in index order.
Values(pm, n) == [k \in 1..n |-> pm[k - 1]]

\* Faulty variant: updateProgress passes the array it built first.
SnapshotKept(pm, n) == IF observer = "none" \/ snapshot = <<>> THEN Values(pm, n) ELSE snapshot

\* updateProgress(): the snapshot and call count after the call.
SnapshotAfter(pm, n) == IF observer = "none" THEN snapshot ELSE Values(pm, n)

NotifiedAfter(k) == IF observer = "none" THEN notified ELSE notified + k

\* Lines 62-63 of a task.
MarkUploading(e) == [e EXCEPT !.status = "uploading", !.progress = 25]

\* Faulty variant: the status set without the progress.
MarkCompletedStatusOnly(e) == [e EXCEPT !.status = "completed"]

\* Lines 86-87.
MarkCompleted(e) == [e EXCEPT !.progress = 100, !.status = "completed"]

\* Faulty variant: the error branch without the reset of progress.
MarkErrorKeepsProgress(e, err) ==
  [e EXCEPT !.status = "error", !.error = MessageOr(err, "Upload failed")]

\* Lines 100-102.
MarkError(e, err) ==
  [e EXCEPT !.status = "error", !.error = MessageOr(err, "Upload failed"), !.progress = 0]

\* Lines 132-135: the batch-level handler.
MarkBatchError(e, err) ==
  [e EXCEPT !.status = "error", !.error = MessageOr(err, "Batch upload failed")]

(***************************************************************************)
(* Results of the per-file tasks and their aggregation.                    *)
(***************************************************************************)
\* What a per-file task returns: { index, data } or { index, error }.
TaskData(i, d) == [kind |-> "data", index |-> i, data |-> d]

TaskError(i, err) == [kind |-> "error", index |-> i, error |-> MessageOr(err, "Upload failed")]

\* An unassigned slot of the sparse results array.
Hole == [kind |-> "hole"]

\* Faulty variant: results.push(result.data) as each task returns, so that the
\* slots follow the order of completion.
ResultsArrayByCompletion(res, n, k) ==
  LET done == SelectSeq(completion', LAMBDA i : res[i].kind = "data")
  IN  [i \in Indices(n) |-> IF i < Len(done) THEN res[done[i + 1]].data ELSE Hole]

\* results[result.index] = result.data, for the results in task order.
RECURSIVE ResultsArray(_, _, _)
ResultsArray(res, n, k) ==
  IF k = 0 THEN [i \in Indices(n) |-> Hole]
  ELSE LET before == ResultsArray(res, n, k - 1)
           r == res[k - 1]
       IN  IF r.kind = "data" /\ r.index \in Indices(n)
           THEN [before EXCEPT ![r.index] = r.data]
           ELSE before

\* Faulty variant: the results array returned without filter(Boolean).
FilterBooleanKeepsHoles(arr, n) == [k \in 1..n |-> arr[k - 1]]

\* results.filter(Boolean): the assigned slots, in index order.
RECURSIVE FilterBoolean(_, _)
FilterBoolean(arr, n) ==
  IF n = 0 THEN <<>>
  ELSE IF arr[n - 1] = Hole THEN FilterBoolean(arr, n - 1)
       ELSE Append(FilterBoolean(arr, n - 1), arr[n - 1])

\* errors.push({ index, error }), for the results in task order.
RECURSIVE ErrorList(_, _)
ErrorList(res, n) ==
  IF n = 0 THEN <<>>
  ELSE IF res[n - 1].kind = "error"
       THEN Append(ErrorList(res, n - 1), [index |-> res[n - 1].index, error |-> res[n - 1].error])
       ELSE ErrorList(res, n - 1)

\* Faulty variant: success derived from the images instead of the errors.
AggregateSuccessByImages(res, n) ==
  LET imgs == FilterBoolean(ResultsArray(res, n, n), n)
  IN  Returned(Len(imgs) > 0, imgs, ErrorList(res, n))

\* Lines 116-128 and 193-205: the UploadResult built from the task results.
Aggregate(res, n) ==
  LET errs == ErrorList(res, n)
  IN  Returned(Len(errs) = 0, FilterBoolean(ResultsArray(res, n, n), n), errs)

\* Faulty variant: the batch-level failure reported under the index of the first file.
BatchFailureAtIndexZero(err) ==
  Returned(FALSE, <<>>, <<[index |-> 0, error |-> MessageOr(err, "Batch upload failed")]>>)

\* Lines 138-142: the result of the batch-level handler.
BatchFailureResult(err) ==
  Returned(FALSE, <<>>, <<[index |-> -1, error |-> MessageOr(err, "Batch upload failed")]>>)

(***************************************************************************)
(* Outcomes of the external collaborators.                                 *)
(***************************************************************************)
\* The error a storage put returns in its result ({ error }).
PutError(size) == ErrorValue("storage error: " \o size)

\* What a storage put promise can reject with.
PutRejections == { ErrorValue("Failed to fetch"), RawValue }

\* What a throwing observer throws.
ObserverError == ErrorValue("observer failed")

\* Faulty variant: only the result of the original is checked.
FirstRefusedOriginalOnly(p, k) == IF p["original"] = "refused" THEN 1 ELSE 0

\* Lines 81-84: the first returned error in the order original, small, medium,
\* large, or 0 when all four puts succeeded.
RECURSIVE FirstRefused(_, _)
FirstRefused(p, k) ==
  IF k > 4 THEN 0 ELSE IF p[Sizes[k]] = "refused" THEN k ELSE FirstRefused(p, k + 1)

(***************************************************************************)
(* Initial states: a caller, its arguments and its environment.            *)
(***************************************************************************)
\* A legacy image of a stored property: a bare path string.
LegacyImage(path) == [type |-> "string", value |-> path]

\* property.images of the edited property.
ExistingImages == { <<>>, <<LegacyImage("7/1.jpg")>> }

NoUpdate == [kind |-> "none", images |-> <<>>]

\* The helpers before any call.
UtilIdle ==
  /\ imageList = <<>>
  /\ normalized = <<>>
  /\ renormalized = <<>>
  /\ lookup = [kind |-> "none"]
  /\ phase = "input"

\* A canvas generateThumbnail has not sized.
Blank == [drawn |-> FALSE, width |-> 0, height |-> 0]

\* generateThumbnails before any call.
SizingIdle ==
  /\ imgWidth = 0
  /\ imgHeight = 0
  /\ canvas = [s \in ThumbSizes |-> Blank]

\* No upload call has derived a path.
PathsIdle ==
  /\ wall = Epoch
  /\ derived = <<>>

\* A Session of the auth service, or null.
NoSession == [kind |-> "null", user |-> "null"]

SessionOf(u) == [kind |-> "session", user |-> u]

NullUser == "null"

\* The auth store as created (lines 21-24), with no call made.
AuthIdle ==
  /\ user = NullUser
  /\ session = NoSession
  /\ loading = TRUE
  /\ initialized = FALSE
  /\ initCalls = 0
  /\ pendingInits = 0
  /\ finishedInits = 0
  /\ subscriptions = 0
  /\ logoutCalls = 0
  /\ pendingLogouts = 0

\* No toggleFavorite call in flight; the hook of a call that is.
NoRequest == [kind |-> "none", before |-> FALSE]

RequestFrom(flag) == [kind |-> "request", before |-> flag]

\* The favorite buttons as first rendered (mapbox-location-picker.tsx lines
\* 403-405, page.tsx line 42), signed out.
FavoritesIdle ==
  /\ cardUser = FALSE
  /\ cardIsFavorite = FALSE
  /\ isLoadingFavorite = FALSE
  /\ cardRequest = NoRequest
  /\ pageUser = FALSE
  /\ pageIsFavorite = FALSE
  /\ pageRequests = <<>>
  /\ redirects = 0
  /\ toggled = <<>>

\* An empty result list; the features of the response to a request.
NoResults == [request |-> 0, of |-> ""]

ResultsOf(r, q) == [request |-> r, of |-> q]

NoAction == [kind |-> "none", value |-> ""]

\* The search box as first rendered (part_005 lines 80-87).
SearchIdle ==
  /\ searchQuery = ""
  /\ searchResults = NoResults
  /\ showResults = FALSE
  /\ isSearching = FALSE
  /\ isSelected = FALSE
  /\ searchError = FALSE
  /\ searchTimeout = ""
  /\ fetches = {}
  /\ requested = 0
  /\ lastAction = NoAction
  /\ actions = 0

WidgetsIdle == FavoritesIdle /\ SearchIdle

\* Nothing outside the upload pipeline has run.
SideIdle == PathsIdle /\ AuthIdle /\ WidgetsIdle

\* The pipeline before the call, for a batch of nFiles files.
PipelineReady ==
  /\ nFiles \in 0..MaxFiles
  /\ now = Epoch
  /\ pc = "idle"
  /\ progressMap = <<>>
  /\ snapshot = <<>>
  /\ notified = 0
  /\ thumbs = [i \in Indices(nFiles) |-> [s \in ThumbSizes |-> "none"]]
  /\ stamp = [i \in Indices(nFiles) |-> 0]
  /\ puts = [i \in Indices(nFiles) |-> [s \in SizeSet |-> "none"]]
  /\ taskRes = [i \in Indices(nFiles) |-> None]
  /\ optResult = None
  /\ fbStamp = [i \in Indices(nFiles) |-> 0]
  /\ fbPuts = [i \in Indices(nFiles) |-> "none"]
  /\ fbRes = [i \in Indices(nFiles) |-> None]
  /\ completion = <<>>
  /\ result = None
  /\ dbUpdate = NoUpdate
  /\ toasts = <<>>

\* A caller of the exported uploadImagesWithFallback, with any observer, in an
\* environment where createClient() works or throws.
Init ==
  /\ UtilIdle
  /\ SizingIdle
  /\ SideIdle
  /\ caller = "direct"
  /\ observer \in {"none", "ok", "throws"}
  /\ clientOk \in BOOLEAN
  /\ existing = <<>>
  /\ PipelineReady

\* The edit page: it has built its client (line 96) and passes a callback that
\* calls setUploadProgress, which returns or (when React refuses the update) throws.
PageInit ==
  /\ UtilIdle
  /\ SizingIdle
  /\ SideIdle
  /\ caller = "onSubmit"
  /\ observer \in {"ok", "throws"}
  /\ clientOk = TRUE
  /\ existing \in ExistingImages
  /\ PipelineReady

inputs == <<caller, observer, clientOk, nFiles, existing>>

fbVars == <<fbStamp, fbPuts, fbRes>>

pageVars == <<dbUpdate, toasts>>

(***************************************************************************)
(* uploadImagesWithFallback, lines 157-191: the catch branch up to the      *)
(* first await.                                                             *)
(***************************************************************************)
FallbackStart ==
  IF ~clientOk
  THEN /\ result' = Raised
       /\ pc' = "returned"
       /\ UNCHANGED <<now, fbVars>>
  ELSE IF nFiles = 0
  THEN /\ result' = Aggregate(fbRes, nFiles)
       /\ pc' = "returned"
       /\ UNCHANGED <<now, fbVars>>
  ELSE \E tickAt \in 0..nFiles :
         /\ fbStamp' = [i \in Indices(nFiles) |-> Timestamp(Reading(now, tickAt, i), i)]
         /\ now' = Reading(now, tickAt, nFiles - 1)
         /\ fbPuts' = [i \in Indices(nFiles) |-> "pending"]
         /\ pc' = "fallback"
         /\ UNCHANGED <<fbRes, result>>

\* Faulty variant: the wrapper also falls back on a reported failure.
FallsBackOnFailure(opt) == opt.kind = "raised" \/ ~opt.success

\* Lines 154-157: the catch clause runs when the awaited optimized call raised.
FallsBack(opt) == opt.kind = "raised"

\* uploadImagesOptimized ends with opt (a result, or Raised) and the wrapper resumes.
OptimizedEnds(opt) ==
  /\ optResult' = opt
  /\ IF FallsBack(opt)
     THEN FallbackStart
     ELSE /\ result' = opt
          /\ pc' = "returned"
          /\ UNCHANGED <<now, fbVars>>

(***************************************************************************)
(* uploadImagesWithFallback -> uploadImagesOptimized, lines 33-57: the call *)
(* up to the await of generateThumbnailsBatch.                              *)
(***************************************************************************)
UploadCall ==
  IF ~clientOk
  THEN \* createClient() throws outside the try block
       /\ OptimizedEnds(Raised)
       /\ UNCHANGED <<progressMap, snapshot, notified, thumbs, stamp, puts, taskRes>>
  ELSE IF observer = "throws"
  THEN \* line 56 throws, the handler of line 130 runs and line 136 throws again
       /\ progressMap' = [i \in Indices(nFiles) |-> MarkBatchError(InitialProgress(nFiles)[i], ObserverError)]
       /\ snapshot' = Values(progressMap', nFiles)
       /\ notified' = notified + 2
       /\ OptimizedEnds(Raised)
       /\ UNCHANGED <<thumbs, stamp, puts, taskRes>>
  ELSE /\ progressMap' = InitialProgress(nFiles)
       /\ snapshot' = SnapshotAfter(progressMap', nFiles)
       /\ notified' = NotifiedAfter(1)
       /\ UNCHANGED <<stamp, puts, taskRes>>
       /\ IF nFiles = 0
          THEN \* nothing to await: both Promise.all resolve at once
               /\ OptimizedEnds(Aggregate(taskRes, nFiles))
               /\ UNCHANGED thumbs
          ELSE /\ thumbs' = [i \in Indices(nFiles) |-> [s \in ThumbSizes |-> "pending"]]
               /\ pc' = "generating"
               /\ UNCHANGED <<now, optResult, result, fbVars>>

\* A direct call of the exported uploadImagesWithFallback.
CallUpload ==
  /\ pc = "idle"
  /\ caller = "direct"
  /\ UploadCall
  /\ UNCHANGED <<inputs, utilVars, sizingVars, sideVars, completion, pageVars>>

(***************************************************************************)
(* generateThumbnailsBatch and the continuation of line 57.                *)
(***************************************************************************)
\* Faulty variant: the tasks start as soon as the variants of one file exist.
AllReadyForSomeFile(t) == \E i \in Indices(nFiles) : \A s \in ThumbSizes : t[i][s] = "ready"

AllReady(t) == \A i \in Indices(nFiles) : \A s \in ThumbSizes : t[i][s] = "ready"

\* Lines 60-78 for every file, in index order: each task runs up to its await.
StartTasks ==
  \E tickAt \in 0..nFiles :
    /\ progressMap' = [i \in Indices(nFiles) |-> MarkUploading(progressMap[i])]
    /\ snapshot' = SnapshotAfter(progressMap', nFiles)
    /\ notified' = NotifiedAfter(nFiles)
    /\ stamp' = [i \in Indices(nFiles) |-> Timestamp(Reading(now, tickAt, i), i)]
    /\ now' = Reading(now, tickAt, nFiles - 1)
    /\ puts' = [i \in Indices(nFiles) |-> [s \in SizeSet |-> "pending"]]
    /\ pc' = "uploading"
    /\ UNCHANGED <<taskRes, optResult, result, fbVars>>

\* Faulty variant: the batch-level handler rethrows after marking the entries.
BatchFailureRethrows(err) ==
  /\ progressMap' = [i \in Indices(nFiles) |-> MarkBatchError(progressMap[i], err)]
  /\ snapshot' = SnapshotAfter(progressMap', nFiles)
  /\ notified' = NotifiedAfter(1)
  /\ OptimizedEnds(Raised)
  /\ UNCHANGED <<stamp, puts, taskRes>>

\* Lines 130-143: the batch-level handler; the wrapper returns its result.
BatchFailure(err) ==
  /\ progressMap' = [i \in Indices(nFiles) |-> MarkBatchError(progressMap[i], err)]
  /\ snapshot' = SnapshotAfter(progressMap', nFiles)
  /\ notified' = NotifiedAfter(1)
  /\ OptimizedEnds(BatchFailureResult(err))
  /\ UNCHANGED <<stamp, puts, taskRes>>

\* generateThumbnail resolves (canvas.toBlob delivered a blob).
ThumbnailReady(i, s) ==
  /\ pc = "generating"
  /\ thumbs[i][s] = "pending"
  /\ thumbs' = [thumbs EXCEPT ![i][s] = "ready"]
  /\ IF AllReady(thumbs')
     THEN StartTasks
     ELSE UNCHANGED <<progressMap, snapshot, notified, stamp, now, puts, pc, taskRes, optResult,
                      result, fbVars>>
  /\ UNCHANGED <<inputs, utilVars, sizingVars, sideVars, completion, pageVars>>

\* generateThumbnail rejects (img.onerror, no canvas context, no blob): the
\* Promise.all of generateThumbnails and of generateThumbnailsBatch reject.
ThumbnailFails(i, s, err) ==
  /\ pc = "generating"
  /\ thumbs[i][s] = "pending"
  /\ thumbs' = [thumbs EXCEPT ![i][s] = "failed"]
  /\ BatchFailure(err)
  /\ UNCHANGED <<inputs, utilVars, sizingVars, sideVars, completion, pageVars>>

(***************************************************************************)
(* The storage puts of the optimized tasks and the continuations of lines  *)
(* 73 and 113.                                                             *)
(***************************************************************************)
\* Faulty variant: the batch resumes with the first task that returns.
SettledAny(res) == \E i \in Indices(nFiles) : res[i].kind # "none"

\* Faulty variant: the batch resumes only once every task has returned data.
SettledOnlyOnSuccess(res) == \A i \in Indices(nFiles) : res[i].kind = "data"

Settled(res) == \A i \in Indices(nFiles) : res[i].kind # "none"

\* Line 113 resumes when every task has returned; the wrapper returns the result.
AfterTask ==
  /\ snapshot' = SnapshotAfter(progressMap', nFiles)
  /\ notified' = NotifiedAfter(1)
  /\ IF Settled(taskRes')
     THEN OptimizedEnds(Aggregate(taskRes', nFiles))
     ELSE UNCHANGED <<optResult, result, pc, now, fbVars>>

\* Faulty variant: a completing task marks every entry completed.
TaskCompletesMarksAll(i) ==
  /\ progressMap' = [j \in Indices(nFiles) |-> MarkCompleted(progressMap[j])]
  /\ taskRes' = [taskRes EXCEPT ![i] =
                   TaskData(i, OptimizedRecord(BaseFileName(PropertyId, stamp[i]), FileExt(FileName(i))))]
  /\ completion' = Append(completion, i)
  /\ AfterTask

\* Lines 86-98: the task of file i completes.
TaskCompletes(i) ==
  /\ progressMap' = [progressMap EXCEPT ![i] = MarkCompleted(@)]
  /\ taskRes' = [taskRes EXCEPT ![i] =
                   TaskData(i, OptimizedRecord(BaseFileName(PropertyId, stamp[i]), FileExt(FileName(i))))]
  /\ completion' = Append(completion, i)
  /\ AfterTask

\* Faulty variant: a failing task fails the entries of the whole batch.
TaskCatchesFailsBatch(i, err) ==
  /\ progressMap' = [j \in Indices(nFiles) |-> MarkError(progressMap[j], err)]
  /\ taskRes' = [taskRes EXCEPT ![i] = TaskError(i, err)]
  /\ completion' = Append(completion, i)
  /\ AfterTask

\* Lines 99-109: the task of file i catches err.
TaskCatches(i, err) ==
  /\ progressMap' = [progressMap EXCEPT ![i] = MarkError(@, err)]
  /\ taskRes' = [taskRes EXCEPT ![i] = TaskError(i, err)]
  /\ completion' = Append(completion, i)
  /\ AfterTask

\* The results of four resolved puts as lines 81-84 read them: in the order of
\* Sizes up to the first returned error ("refused"); the results after it are
\* never read and stay "resolved".
PutResults ==
  { [s \in SizeSet |->
       LET at == CHOOSE k \in 1..4 : Sizes[k] = s
       IN  IF first = 0 \/ at < first THEN "stored"
           ELSE IF at = first THEN "refused" ELSE "resolved"] : first \in 0..4 }

\* A put resolves. Its result ({ error: null } or { error }) is read only when
\* all four have resolved: lines 80-84 then look for the first returned error,
\* so the results (v) enter the state with the last of the four.
PutResolves(i, s) ==
  /\ pc = "uploading"
  /\ taskRes[i].kind = "none"
  /\ puts[i][s] = "pending"
  /\ IF \E t \in SizeSet \ {s} : puts[i][t] = "pending"
     THEN /\ puts' = [puts EXCEPT ![i][s] = "resolved"]
          /\ UNCHANGED <<taskRes, completion, progressMap, snapshot, notified, optResult, result, pc, now,
                         fbVars>>
     ELSE \E v \in PutResults :
            /\ puts' = [puts EXCEPT ![i] = v]
            /\ LET k == FirstRefused(v, 1)
               IN  IF k = 0 THEN TaskCompletes(i) ELSE TaskCatches(i, PutError(Sizes[k]))
  /\ UNCHANGED <<inputs, utilVars, sizingVars, sideVars, thumbs, stamp, pageVars>>

\* A put promise rejects: Promise.all rejects at once, its collected results are
\* dropped and the task no longer observes its other three puts ("detached":
\* settled or still in flight, the program never looks at them again).
PutRejects(i, s, err) ==
  /\ pc = "uploading"
  /\ taskRes[i].kind = "none"
  /\ puts[i][s] = "pending"
  /\ puts' = [puts EXCEPT ![i] = [t \in SizeSet |-> IF t = s THEN "rejected" ELSE "detached"]]
  /\ TaskCatches(i, err)
  /\ UNCHANGED <<inputs, utilVars, sizingVars, sideVars, thumbs, stamp, pageVars>>

(***************************************************************************)
(* The fallback tasks, lines 165-205.                                      *)
(***************************************************************************)
\* `${propertyId}/${timestamp}.${fileExt}`
OriginalPath(propertyId, timestamp, ext) == propertyId \o "/" \o ToString(timestamp) \o "." \o ext

\* Faulty variant: the first failing file ends the fallback.
AfterFallbackTaskStopsAtError ==
  IF Settled(fbRes') \/ \E i \in Indices(nFiles) : fbRes'[i].kind = "error"
  THEN /\ result' = Aggregate(fbRes', nFiles)
       /\ pc' = "returned"
  ELSE UNCHANGED <<result, pc>>

\* Line 191 resumes when every fallback task has returned.
AfterFallbackTask ==
  IF Settled(fbRes')
  THEN /\ result' = Aggregate(fbRes', nFiles)
       /\ pc' = "returned"
  ELSE UNCHANGED <<result, pc>>

\* Faulty variant: the fallback reports the stored file as completed.
FallbackPutStoredReports(i) ==
  /\ pc = "fallback"
  /\ fbPuts[i] = "pending"
  /\ fbPuts' = [fbPuts EXCEPT ![i] = "stored"]
  /\ fbRes' = [fbRes EXCEPT ![i] =
                 TaskData(i, FallbackRecord(OriginalPath(PropertyId, fbStamp[i], FileExt(FileName(i)))))]
  /\ completion' = Append(completion, i)
  /\ AfterFallbackTask
  /\ progressMap' = [progressMap EXCEPT ![i] = MarkCompleted(@)]
  /\ snapshot' = SnapshotAfter(progressMap', nFiles)
  /\ notified' = NotifiedAfter(1)
  /\ UNCHANGED <<inputs, utilVars, sizingVars, sideVars, now, thumbs, stamp, puts, taskRes,
                 optResult, fbStamp, pageVars>>

\* The put of file i resolves without error.
FallbackPutStored(i) ==
  /\ pc = "fallback"
  /\ fbPuts[i] = "pending"
  /\ fbPuts' = [fbPuts EXCEPT ![i] = "stored"]
  /\ fbRes' = [fbRes EXCEPT ![i] =
                 TaskData(i, FallbackRecord(OriginalPath(PropertyId, fbStamp[i], FileExt(FileName(i)))))]
  /\ completion' = Append(completion, i)
  /\ AfterFallbackTask
  /\ UNCHANGED <<inputs, utilVars, sizingVars, sideVars, now, progressMap, snapshot, notified, thumbs, stamp, puts, taskRes,
                 optResult, fbStamp, pageVars>>

\* The put of file i returns an error (refused) or its promise rejects.
FallbackPutFails(i, o, err) ==
  /\ pc = "fallback"
  /\ fbPuts[i] = "pending"
  /\ fbPuts' = [fbPuts EXCEPT ![i] = o]
  /\ fbRes' = [fbRes EXCEPT ![i] = TaskError(i, err)]
  /\ completion' = Append(completion, i)
  /\ AfterFallbackTask
  /\ UNCHANGED <<inputs, utilVars, sizingVars, sideVars, now, progressMap, snapshot, notified, thumbs, stamp, puts, taskRes,
                 optResult, fbStamp, pageVars>>

(***************************************************************************)
(* The edit page's onSubmit.                                               *)
(***************************************************************************)
\* Lines 209-235: the update is issued with the combined images.
IssueUpdate(newImagesData) ==
  /\ dbUpdate' = [kind |-> "issued", images |-> existing \o newImagesData]
  /\ pc' = "updating"

\* The error toast of lines 193-196.
UploadErrorToast(r) ==
  IF ~r.success /\ Len(r.errors) > 0 THEN <<"Failed to upload image(s)">> ELSE <<>>

\* Faulty variant: the check of line 203 left out.
NothingUploadedIgnored(r) == FALSE

\* Line 203: newImagesData.length === 0
NothingUploaded(r) == Len(r.images) = 0

\* Lines 159-189: the handler up to its first await.
Submit ==
  /\ pc = "idle"
  /\ caller = "onSubmit"
  /\ IF Len(existing) = 0 /\ nFiles = 0
     THEN /\ toasts' = Append(toasts, "At least one image is required")
          /\ pc' = "done"
          /\ UNCHANGED <<now, progressMap, snapshot, notified, thumbs, stamp, puts, taskRes,
                         optResult, fbVars, result, dbUpdate>>
     ELSE IF nFiles > 0
     THEN /\ UploadCall
          /\ UNCHANGED pageVars
     ELSE /\ IssueUpdate(<<>>)
          /\ UNCHANGED <<now, progressMap, snapshot, notified, thumbs, stamp, puts, taskRes,
                         optResult, fbVars, result, toasts>>
  /\ UNCHANGED <<inputs, utilVars, sizingVars, sideVars, completion>>

\* Lines 191-235 and 241-243: the handler resumes with the upload's outcome.
SubmitResumes ==
  /\ pc = "returned"
  /\ caller = "onSubmit"
  /\ IF result.kind = "raised"
     THEN /\ toasts' = Append(toasts, "Failed to update property")
          /\ pc' = "done"
          /\ UNCHANGED dbUpdate
     ELSE IF NothingUploaded(result)
     THEN /\ toasts' = toasts \o UploadErrorToast(result) \o <<"Failed to update property">>
          /\ pc' = "done"
          /\ UNCHANGED dbUpdate
     ELSE /\ toasts' = toasts \o UploadErrorToast(result)
          /\ IssueUpdate(result.images)
  /\ UNCHANGED <<inputs, utilVars, sizingVars, sideVars, completion, now, progressMap, snapshot, notified, thumbs,
                 stamp, puts, taskRes, optResult, fbVars, result>>

\* Lines 237-243: the database answers the update.
UpdateSettles(ok) ==
  /\ pc = "updating"
  /\ toasts' = Append(toasts, IF ok THEN "Property updated successfully" ELSE "Failed to update property")
  /\ pc' = "done"
  /\ UNCHANGED <<inputs, utilVars, sizingVars, sideVars, completion, now, progressMap, snapshot, notified, thumbs,
                 stamp, puts, taskRes, optResult, fbVars, result, dbUpdate>>

(***************************************************************************)
(* The specification.                                                      *)
(***************************************************************************)
\* The events of the optimized path.
OptimizedNext ==
  \/ \E i \in Indices(nFiles), s \in ThumbSizes : ThumbnailReady(i, s)
  \/ \E i \in Indices(nFiles), s \in ThumbSizes, err \in ThumbnailErrors : ThumbnailFails(i, s, err)
  \/ \E i \in Indices(nFiles), s \in SizeSet : PutResolves(i, s)
  \/ \E i \in Indices(nFiles), s \in SizeSet, err \in PutRejections : PutRejects(i, s, err)

\* The events of the fallback path.
FallbackNext ==
  \/ \E i \in Indices(nFiles) : FallbackPutStored(i)
  \/ \E i \in Indices(nFiles) : FallbackPutFails(i, "refused", PutError("original"))
  \/ \E i \in Indices(nFiles), err \in PutRejections : FallbackPutFails(i, "rejected", err)

\* The uploader called directly.
Next ==
  \/ CallUpload
  \/ OptimizedNext
  \/ FallbackNext

Spec == Init /\ [][Next]_vars

\* The uploader called directly, when every pending variant generation and
\* every pending storage put eventually settles.
SpecLive == Spec /\ WF_vars(OptimizedNext) /\ WF_vars(FallbackNext)

\* The uploader called by the edit page's submit handler.
PageNext ==
  \/ Submit
  \/ OptimizedNext
  \/ FallbackNext
  \/ SubmitResumes
  \/ \E ok \in BOOLEAN : UpdateSettles(ok)

SpecPage == PageInit /\ [][PageNext]_vars

(***************************************************************************)
(* The image-format helpers: getImageUrl and normalizeImageData.           *)
(***************************************************************************)
MaxImages == 2

\* typeof imageData === 'string'
IsString(img) == DOMAIN img = {"type", "value"}

\* An ImageData object.
ImageObject(o, s, m, l) == [original |-> o, small |-> s, medium |-> m, large |-> l]

\* supabase.storage.from('images').getPublicUrl(path).data.publicUrl
PublicUrl(path) == "https://storage/images/" \o path

\* a || b on strings: the empty string is falsy.
OrElse(a, b) == IF a = "" THEN b ELSE a

getImageUrl(imageData, size) ==
  IF IsString(imageData)
  THEN PublicUrl(imageData.value)
  ELSE PublicUrl(OrElse(imageData[size], imageData.original))

\* Faulty variant: the thumbnails of a legacy image derived from its path.
normalizeDerivesThumbnails(images) ==
  [k \in DOMAIN images |->
     IF IsString(images[k])
     THEN ImageObject(images[k].value, images[k].value \o "_small",
                      images[k].value \o "_medium", images[k].value \o "_large")
     ELSE images[k]]

normalizeImageData(images) ==
  [k \in DOMAIN images |->
     IF IsString(images[k])
     THEN ImageObject(images[k].value, images[k].value, images[k].value, images[k].value)
     ELSE images[k]]

\* The images a stored property can hold: legacy paths and four-field records,
\* a record of the fallback uploader and one with an empty thumbnail among them.
ImageInputs ==
  { LegacyImage("7/1.jpg"),
    LegacyImage(""),
    ImageObject("7/2.jpg", "7/2_small.jpg", "7/2_medium.jpg", "7/2_large.jpg"),
    ImageObject("7/3.jpg", "7/3.jpg", "7/3.jpg", "7/3.jpg"),
    ImageObject("7/4.jpg", "", "7/4_medium.jpg", "7/4_large.jpg") }

ImageLists == UNION { [1..n -> ImageInputs] : n \in 0..MaxImages }

\* The pipeline before any call, with no caller.
PipelineIdle ==
  /\ caller = "direct"
  /\ observer = "none"
  /\ clientOk = TRUE
  /\ nFiles = 0
  /\ existing = <<>>
  /\ now = Epoch
  /\ pc = "idle"
  /\ progressMap = <<>>
  /\ snapshot = <<>>
  /\ notified = 0
  /\ thumbs = <<>>
  /\ stamp = <<>>
  /\ puts = <<>>
  /\ taskRes = <<>>
  /\ optResult = None
  /\ fbStamp = <<>>
  /\ fbPuts = <<>>
  /\ fbRes = <<>>
  /\ completion = <<>>
  /\ result = None
  /\ dbUpdate = NoUpdate
  /\ toasts = <<>>

NormalizeInit ==
  /\ PipelineIdle
  /\ SizingIdle
  /\ SideIdle
  /\ imageList \in ImageLists
  /\ normalized = <<>>
  /\ renormalized = <<>>
  /\ lookup = [kind |-> "none"]
  /\ phase = "input"

\* normalizeImageData applied to the stored list.
Normalize ==
  /\ phase = "input"
  /\ normalized' = normalizeImageData(imageList)
  /\ phase' = "normalized"
  /\ UNCHANGED <<pipelineVars, sizingVars, sideVars, imageList, renormalized, lookup>>

\* normalizeImageData applied to its own output.
NormalizeAgain ==
  /\ phase = "normalized"
  /\ renormalized' = normalizeImageData(normalized)
  /\ phase' = "renormalized"
  /\ UNCHANGED <<pipelineVars, sizingVars, sideVars, imageList, normalized, lookup>>

\* getImageUrl on the k-th image in its stored and in its normalized form.
GetImageUrl(k, size) ==
  /\ phase # "input"
  /\ k \in DOMAIN imageList
  /\ lookup' = [kind |-> "done", index |-> k, size |-> size,
                stored |-> getImageUrl(imageList[k], size),
                normal |-> getImageUrl(normalized[k], size)]
  /\ UNCHANGED <<pipelineVars, sizingVars, sideVars, imageList, normalized, renormalized, phase>>

NormalizeNext ==
  \/ Normalize
  \/ NormalizeAgain
  \/ \E k \in 1..MaxImages, size \in SizeSet : GetImageUrl(k, size)

SpecNormalize == NormalizeInit /\ [][NormalizeNext]_vars

(***************************************************************************)
(* generateThumbnail and generateThumbnails: the size of the variants.     *)
(***************************************************************************)
\* Source images have sides Step, 2 * Step, ..., MaxUnits * Step pixels.
Step == 25

MaxUnits == 36

Sides == { Step * k : k \in 1..MaxUnits }

\* The arguments generateThumbnails passes for each variant.
Presets ==
  [ small  |-> [maxWidth |-> 300, maxHeight |-> 200],
    medium |-> [maxWidth |-> 600, maxHeight |-> 400],
    large  |-> [maxWidth |-> 800, maxHeight |-> 600] ]

\* The values a canvas side takes when it is assigned the double computed for
\* num / den (width / aspectRatio or height * aspectRatio): the assignment
\* drops the fraction, and the double of an integral quotient can lie just
\* under it (425 * 300 / 625 is computed as 203.99999999999997).
Truncated(num, den) ==
  IF num % den = 0 THEN { num \div den, (num \div den) - 1 } ELSE { num \div den }

\* Faulty variant: each side clamped to its own limit, the other left alone.
generateThumbnailClampsEach(width, height, maxWidth, maxHeight) ==
  { [drawn |-> TRUE,
     width |-> IF width > maxWidth THEN maxWidth ELSE width,
     height |-> IF height > maxHeight THEN maxHeight ELSE height] }

\* Faulty variant: the longer side always scaled to its limit, a smaller
\* source enlarged.
generateThumbnailFills(width, height, maxWidth, maxHeight) ==
  IF width > height
  THEN { [drawn |-> TRUE, width |-> maxWidth, height |-> h] : h \in Truncated(maxWidth * height, width) }
  ELSE { [drawn |-> TRUE, width |-> w, height |-> maxHeight] : w \in Truncated(maxHeight * width, height) }

\* Lines 17-34: the canvas sizes generateThumbnail can set for an image of
\* width x height.
generateThumbnail(width, height, maxWidth, maxHeight) ==
  IF width > height
  THEN IF width > maxWidth
       THEN { [drawn |-> TRUE, width |-> maxWidth, height |-> h] : h \in Truncated(maxWidth * height, width) }
       ELSE { [drawn |-> TRUE, width |-> width, height |-> height] }
  ELSE IF height > maxHeight
       THEN { [drawn |-> TRUE, width |-> w, height |-> maxHeight] : w \in Truncated(maxHeight * width, height) }
       ELSE { [drawn |-> TRUE, width |-> width, height |-> height] }

\* An image of any size on the grid was decoded; nothing else runs.
SizingInit ==
  /\ PipelineIdle
  /\ UtilIdle
  /\ SideIdle
  /\ imgWidth \in Sides
  /\ imgHeight \in Sides
  /\ canvas = [s \in ThumbSizes |-> Blank]

\* img.onload of the generateThumbnail call for variant s.
GenerateThumbnail(s) ==
  /\ imgWidth > 0
  /\ ~canvas[s].drawn
  /\ \E c \in generateThumbnail(imgWidth, imgHeight, Presets[s].maxWidth, Presets[s].maxHeight) :
       canvas' = [canvas EXCEPT ![s] = c]
  /\ UNCHANGED <<pipelineVars, utilVars, sideVars, imgWidth, imgHeight>>

\* The three calls of generateThumbnails, whose images load in any order.
SizingNext == \E s \in ThumbSizes : GenerateThumbnail(s)

SpecSizing == SizingInit /\ [][SizingNext]_vars

(***************************************************************************)
(* The storage paths of successive upload calls for the same property      *)
(* (two submits of the edit page, from one tab or from two).               *)
(***************************************************************************)
MaxCalls == 2

\* The clock is followed for MaxElapsed milliseconds.
MaxElapsed == 3

\* Lines 66-77: the paths the optimized tasks of a batch of n files derive.
OptimizedPaths(n, from, tickAt) ==
  { PutPath(BaseFileName(PropertyId, Timestamp(Reading(from, tickAt, i), i)), s, FileExt(FileName(i))) :
      i \in Indices(n), s \in SizeSet }

\* Lines 167-171: the paths the fallback tasks of a batch of n files derive.
FallbackPaths(n, from, tickAt) ==
  { OriginalPath(PropertyId, Timestamp(Reading(from, tickAt, i), i), FileExt(FileName(i))) :
      i \in Indices(n) }

PathsInit ==
  /\ PipelineIdle
  /\ UtilIdle
  /\ SizingIdle
  /\ PathsIdle
  /\ AuthIdle
  /\ WidgetsIdle

\* Time passes between two calls.
ClockAdvances ==
  /\ wall < Epoch + MaxElapsed
  /\ wall' = wall + 1
  /\ UNCHANGED <<pipelineVars, utilVars, sizingVars, authVars, widgetVars, derived>>

\* An upload call whose optimized uploader starts the tasks of its n files.
OptimizedBatch(n, tickAt) ==
  /\ Len(derived) < MaxCalls
  /\ wall < Epoch + MaxElapsed
  /\ derived' = Append(derived, [uploader |-> "optimized", at |-> wall,
                                  paths |-> OptimizedPaths(n, wall, tickAt)])
  /\ wall' = Reading(wall, tickAt, n - 1)
  /\ UNCHANGED <<pipelineVars, utilVars, sizingVars, authVars, widgetVars>>

\* An upload call whose optimized uploader raised at once and whose fallback
\* starts the tasks of its n files.
FallbackBatch(n, tickAt) ==
  /\ Len(derived) < MaxCalls
  /\ wall < Epoch + MaxElapsed
  /\ derived' = Append(derived, [uploader |-> "fallback", at |-> wall,
                                  paths |-> FallbackPaths(n, wall, tickAt)])
  /\ wall' = Reading(wall, tickAt, n - 1)
  /\ UNCHANGED <<pipelineVars, utilVars, sizingVars, authVars, widgetVars>>

PathsNext ==
  \/ ClockAdvances
  \/ \E n \in 1..MaxFiles : \E tickAt \in 0..n : OptimizedBatch(n, tickAt)
  \/ \E n \in 1..MaxFiles : \E tickAt \in 0..n : FallbackBatch(n, tickAt)

SpecPaths == PathsInit /\ [][PathsNext]_vars

(***************************************************************************)
(* The auth store: initialize, setSession, the auth-state listener, logout. *)
(***************************************************************************)
MaxInitCalls == 3

MaxLogouts == 2

\* The sessions the auth service can report.
AuthSessions == { NoSession, SessionOf("u1"), SessionOf("u2") }

\* Faulty variant: the user left as it was.
UserKept(sess) == user

\* session?.user ?? null
UserOf(sess) == IF sess.kind = "null" THEN NullUser ELSE sess.user

\* The store as created, or with the user and session the persist middleware
\* restored from 'auth-storage' (lines 70-77).
AuthInit ==
  /\ PipelineIdle
  /\ UtilIdle
  /\ SizingIdle
  /\ PathsIdle
  /\ WidgetsIdle
  /\ session \in AuthSessions
  /\ user = session.user
  /\ loading = TRUE
  /\ initialized = FALSE
  /\ initCalls = 0
  /\ pendingInits = 0
  /\ finishedInits = 0
  /\ subscriptions = 0
  /\ logoutCalls = 0
  /\ pendingLogouts = 0

authFrame == <<pipelineVars, utilVars, sizingVars, pathVars, widgetVars>>

\* Lines 35-42: initialize() up to the await of getSession().
Initialize ==
  /\ initCalls < MaxInitCalls
  /\ initCalls' = initCalls + 1
  /\ IF initialized
     THEN finishedInits' = finishedInits + 1 /\ UNCHANGED pendingInits
     ELSE pendingInits' = pendingInits + 1 /\ UNCHANGED finishedInits
  /\ UNCHANGED <<authFrame, user, session, loading, initialized, subscriptions, logoutCalls, pendingLogouts>>

\* Lines 42-57: getSession() resolves for one suspended call.
GetSessionResolves(sess) ==
  /\ pendingInits > 0
  /\ pendingInits' = pendingInits - 1
  /\ session' = sess
  /\ user' = UserOf(sess)
  /\ loading' = FALSE
  /\ initialized' = TRUE
  /\ subscriptions' = subscriptions + 1
  /\ finishedInits' = finishedInits + 1
  /\ UNCHANGED <<authFrame, initCalls, logoutCalls, pendingLogouts>>

\* Lines 58-61: getSession() rejects for one suspended call.
GetSessionRejects ==
  /\ pendingInits > 0
  /\ pendingInits' = pendingInits - 1
  /\ loading' = FALSE
  /\ initialized' = TRUE
  /\ finishedInits' = finishedInits + 1
  /\ UNCHANGED <<authFrame, user, session, initCalls, subscriptions, logoutCalls, pendingLogouts>>

\* Lines 28-31.
SetSession(sess) ==
  /\ session' = sess
  /\ user' = UserOf(sess)
  /\ UNCHANGED <<authFrame, loading, initialized, initCalls, pendingInits, finishedInits,
                 subscriptions, logoutCalls, pendingLogouts>>

\* Lines 51-57: the auth service reports a change to every registered listener.
AuthStateChange(sess) ==
  /\ subscriptions > 0
  /\ session' = sess
  /\ user' = UserOf(sess)
  /\ loading' = FALSE
  /\ UNCHANGED <<authFrame, initialized, initCalls, pendingInits, finishedInits,
                 subscriptions, logoutCalls, pendingLogouts>>

\* Lines 64-66: logout() up to the await of signOut().
Logout ==
  /\ logoutCalls < MaxLogouts
  /\ logoutCalls' = logoutCalls + 1
  /\ pendingLogouts' = pendingLogouts + 1
  /\ UNCHANGED <<authFrame, user, session, loading, initialized, initCalls, pendingInits,
                 finishedInits, subscriptions>>

\* Line 67: signOut() resolves.
SignOutResolves ==
  /\ pendingLogouts > 0
  /\ pendingLogouts' = pendingLogouts - 1
  /\ user' = NullUser
  /\ session' = NoSession
  /\ UNCHANGED <<authFrame, loading, initialized, initCalls, pendingInits, finishedInits,
                 subscriptions, logoutCalls>>

\* signOut() rejects: logout() raises before line 67.
SignOutRejects ==
  /\ pendingLogouts > 0
  /\ pendingLogouts' = pendingLogouts - 1
  /\ UNCHANGED <<authFrame, user, session, loading, initialized, initCalls, pendingInits,
                 finishedInits, subscriptions, logoutCalls>>

AuthNext ==
  \/ Initialize
  \/ \E sess \in AuthSessions : GetSessionResolves(sess)
  \/ GetSessionRejects
  \/ \E sess \in AuthSessions : SetSession(sess)
  \/ \E sess \in AuthSessions : AuthStateChange(sess)
  \/ Logout
  \/ SignOutResolves
  \/ SignOutRejects

SpecAuth == AuthInit /\ [][AuthNext]_vars

(***************************************************************************)
(* The favorite buttons: PropertyCard.toggleFavorite                        *)
(* (mapbox-location-picker.tsx lines 430-473) and the detail page's         *)
(* toggleFavorite (properties/[id]/page.tsx lines 82-117).                  *)
(***************************************************************************)
MaxClicks == 3

MaxPending == 2

MaxRedirects == 2

\* A toggleFavorite call whose request has settled: the flag shown before the
\* click, the request's outcome, the flag shown once the call has ended.
Toggle(v, flag, succeeded, shown) ==
  [view |-> v, before |-> flag, ok |-> succeeded, after |-> shown]

\* Both components rendered, their effects (lines 407-421; fetchProperty,
\* lines 53-80) done.
FavoritesInit ==
  /\ PipelineIdle
  /\ UtilIdle
  /\ SizingIdle
  /\ PathsIdle
  /\ AuthIdle
  /\ SearchIdle
  /\ cardUser \in BOOLEAN
  /\ cardIsFavorite \in (IF cardUser THEN BOOLEAN ELSE {FALSE})
  /\ isLoadingFavorite = FALSE
  /\ cardRequest = NoRequest
  /\ pageUser \in BOOLEAN
  /\ pageIsFavorite \in (IF pageUser THEN BOOLEAN ELSE {FALSE})
  /\ pageRequests = <<>>
  /\ redirects = 0
  /\ toggled = <<>>

favFrame == <<pipelineVars, utilVars, sizingVars, pathVars, authVars, searchVars>>

Clicks == Len(toggled) + Len(pageRequests) + (IF cardRequest = NoRequest THEN 0 ELSE 1)

\* PropertyCard, line 469: setIsFavorite(!isFavorite), isFavorite being the
\* flag the call's closure captured.
CardCatch(flag) == ~flag

\* PropertyCard, lines 434-437, and the detail page, lines 83-87: no user.
CardClickSignedOut ==
  /\ ~cardUser
  /\ ~isLoadingFavorite
  /\ redirects < MaxRedirects
  /\ redirects' = redirects + 1
  /\ UNCHANGED <<favFrame, cardUser, cardIsFavorite, isLoadingFavorite, cardRequest,
                 pageUser, pageIsFavorite, pageRequests, toggled>>

PageClickSignedOut ==
  /\ ~pageUser
  /\ redirects < MaxRedirects
  /\ redirects' = redirects + 1
  /\ UNCHANGED <<favFrame, cardUser, cardIsFavorite, isLoadingFavorite, cardRequest,
                 pageUser, pageIsFavorite, pageRequests, toggled>>

\* PropertyCard, lines 430-456: the click up to the await of the request. The
\* button is disabled while isLoadingFavorite (line 539).
CardClick ==
  /\ cardUser
  /\ ~isLoadingFavorite
  /\ Clicks < MaxClicks
  /\ isLoadingFavorite' = TRUE
  /\ cardRequest' = RequestFrom(cardIsFavorite)
  /\ UNCHANGED <<favFrame, cardUser, cardIsFavorite, pageUser, pageIsFavorite,
                 pageRequests, redirects, toggled>>

\* PropertyCard, lines 452-453 and 463-464, then 470-472.
CardRequestSucceeds ==
  /\ cardRequest # NoRequest
  /\ cardIsFavorite' = ~cardRequest.before
  /\ isLoadingFavorite' = FALSE
  /\ cardRequest' = NoRequest
  /\ toggled' = Append(toggled, Toggle("card", cardRequest.before, TRUE, cardIsFavorite'))
  /\ UNCHANGED <<favFrame, cardUser, pageUser, pageIsFavorite, pageRequests, redirects>>

\* PropertyCard, lines 452 and 463 throwing, then 466-472.
CardRequestFails ==
  /\ cardRequest # NoRequest
  /\ cardIsFavorite' = CardCatch(cardRequest.before)
  /\ isLoadingFavorite' = FALSE
  /\ cardRequest' = NoRequest
  /\ toggled' = Append(toggled, Toggle("card", cardRequest.before, FALSE, cardIsFavorite'))
  /\ UNCHANGED <<favFrame, cardUser, pageUser, pageIsFavorite, pageRequests, redirects>>

\* The detail page, lines 82-110: the click up to the await of the request.
PageClick ==
  /\ pageUser
  /\ Clicks < MaxClicks
  /\ Len(pageRequests) < MaxPending
  /\ pageIsFavorite' = ~pageIsFavorite
  /\ pageRequests' = Append(pageRequests, RequestFrom(pageIsFavorite))
  /\ UNCHANGED <<favFrame, cardUser, cardIsFavorite, isLoadingFavorite, cardRequest,
                 pageUser, redirects, toggled>>

Without(seq, i) == [k \in 1..(Len(seq) - 1) |-> IF k < i THEN seq[k] ELSE seq[k + 1]]

\* The detail page, lines 102 and 112 not throwing: the call ends.
PageRequestSucceeds(i) ==
  /\ i \in DOMAIN pageRequests
  /\ pageRequests' = Without(pageRequests, i)
  /\ toggled' = Append(toggled, Toggle("page", pageRequests[i].before, TRUE, pageIsFavorite))
  /\ UNCHANGED <<favFrame, cardUser, cardIsFavorite, isLoadingFavorite, cardRequest,
                 pageUser, pageIsFavorite, redirects>>

\* The detail page, lines 102 and 112 throwing, then 114-116.
PageRequestFails(i) ==
  /\ i \in DOMAIN pageRequests
  /\ pageRequests' = Without(pageRequests, i)
  /\ toggled' = Append(toggled, Toggle("page", pageRequests[i].before, FALSE, pageIsFavorite))
  /\ UNCHANGED <<favFrame, cardUser, cardIsFavorite, isLoadingFavorite, cardRequest,
                 pageUser, pageIsFavorite, redirects>>

FavoritesNext ==
  \/ CardClickSignedOut
  \/ PageClickSignedOut
  \/ CardClick
  \/ CardRequestSucceeds
  \/ CardRequestFails
  \/ PageClick
  \/ \E i \in 1..MaxPending : PageRequestSucceeds(i)
  \/ \E i \in 1..MaxPending : PageRequestFails(i)

SpecFavorites == FavoritesInit /\ [][FavoritesNext]_vars

(***************************************************************************)
(* The address search box: MapboxSearch (part_005 lines 116-205), whose     *)
(* handlers MapboxLocationPicker repeats (mapbox-location-picker.tsx lines  *)
(* 110-188) without the isSelected and error updates.                       *)
(***************************************************************************)
MaxActions == 4

MaxRequests == 2

\* What the user types into the input; "" stands for every blank value.
Typed == { "a", "ab", "" }

\* The place_name of the result the list shows for a query.
PlaceName(q) == "Calle " \o q

SearchInit ==
  /\ PipelineIdle
  /\ UtilIdle
  /\ SizingIdle
  /\ PathsIdle
  /\ AuthIdle
  /\ FavoritesIdle
  /\ SearchIdle

searchFrame == <<pipelineVars, utilVars, sizingVars, pathVars, authVars, favVars>>

UserDid(k, v) == [kind |-> k, value |-> v]

\* The result list is rendered (part_005 line 261).
ListOpen == showResults /\ searchResults # NoResults

\* handleSearchChange, lines 154-171. The input is disabled while isSelected
\* (line 246).
HandleSearchChange(value) ==
  /\ ~isSelected
  /\ value # searchQuery
  /\ actions < MaxActions
  /\ actions' = actions + 1
  /\ searchQuery' = value
  /\ isSelected' = FALSE
  /\ searchError' = FALSE
  /\ IF value # ""
       THEN /\ searchTimeout' = value
            /\ lastAction' = UserDid("typed", value)
            /\ UNCHANGED <<searchResults, showResults>>
       ELSE /\ searchTimeout' = ""
            /\ searchResults' = NoResults
            /\ showResults' = FALSE
            /\ lastAction' = UserDid("emptied", value)
  /\ UNCHANGED <<searchFrame, isSearching, fetches, requested>>

\* The debounce timer of line 164 fires: searchAddresses, lines 116-128, up to
\* the await of fetch. The access token is configured.
TimeoutFires ==
  /\ searchTimeout # ""
  /\ requested < MaxRequests
  /\ requested' = requested + 1
  /\ fetches' = fetches \cup { ResultsOf(requested', searchTimeout) }
  /\ searchTimeout' = ""
  /\ isSearching' = TRUE
  /\ searchError' = FALSE
  /\ UNCHANGED <<searchFrame, searchQuery, searchResults, showResults, isSelected,
                 lastAction, actions>>

\* searchAddresses, lines 134-144 and 150: the response carries features.
ResponseArrives(r) ==
  /\ r \in fetches
  /\ fetches' = fetches \ {r}
  /\ searchResults' = r
  /\ showResults' = TRUE
  /\ isSearching' = FALSE
  /\ UNCHANGED <<searchFrame, searchQuery, isSelected, searchError, searchTimeout,
                 requested, lastAction, actions>>

\* searchAddresses, lines 126-132 throwing, then 145-150.
ResponseFails(r) ==
  /\ r \in fetches
  /\ fetches' = fetches \ {r}
  /\ searchError' = TRUE
  /\ searchResults' = NoResults
  /\ isSearching' = FALSE
  /\ UNCHANGED <<searchFrame, searchQuery, showResults, isSelected, searchTimeout,
                 requested, lastAction, actions>>

\* handleResultSelect, lines 174-187, on a result of the open list.
HandleResultSelect ==
  /\ ListOpen
  /\ actions < MaxActions
  /\ actions' = actions + 1
  /\ searchQuery' = PlaceName(searchResults.of)
  /\ showResults' = FALSE
  /\ isSelected' = TRUE
  /\ searchError' = FALSE
  /\ lastAction' = UserDid("selected", searchQuery')
  /\ UNCHANGED <<searchFrame, searchResults, isSearching, searchTimeout, fetches, requested>>

\* clearSearch, lines 190-205. The button is rendered while searchQuery or
\* isSelected (line 250).
ClearSearch ==
  /\ searchQuery # "" \/ isSelected
  /\ actions < MaxActions
  /\ actions' = actions + 1
  /\ searchQuery' = ""
  /\ searchResults' = NoResults
  /\ showResults' = FALSE
  /\ isSelected' = FALSE
  /\ searchError' = FALSE
  /\ searchTimeout' = ""
  /\ lastAction' = UserDid("cleared", "")
  /\ UNCHANGED <<searchFrame, isSearching, fetches, requested>>

SearchNext ==
  \/ \E value \in Typed : HandleSearchChange(value)
  \/ TimeoutFires
  \/ \E r \in fetches : ResponseArrives(r)
  \/ \E r \in fetches : ResponseFails(r)
  \/ HandleResultSelect
  \/ ClearSearch

SpecSearch == SearchInit /\ [][SearchNext]_vars

(***************************************************************************)
(* Properties of the pipeline.                                             *)
(***************************************************************************)
GenerationFailed == \E i \in Indices(nFiles) : \E s \in ThumbSizes : thumbs[i][s] = "failed"

\* The files of which a storage put of the optimized task failed.
PutFailed(i) == \E s \in SizeSet : puts[i][s] \in {"refused", "rejected"}

\* The files of which all four puts were stored.
AllStored(i) == \A s \in SizeSet : puts[i][s] = "stored"

\* The record the optimized task of file i returns.
RecordOf(i) == OptimizedRecord(BaseFileName(PropertyId, stamp[i]), FileExt(FileName(i)))

Occurrences(seq, x) == Cardinality({k \in DOMAIN seq : seq[k] = x})

ErrorsAt(r, i) == Cardinality({k \in DOMAIN r.errors : r.errors[k].index = i})

PutFailureMessages(i) ==
  { PutError(s).message : s \in {t \in SizeSet : puts[i][t] = "refused"} }
    \cup (IF \E s \in SizeSet : puts[i][s] = "rejected"
          THEN { "Failed to fetch", "Upload failed" } ELSE {})

\* The indices in increasing order that satisfy Keep.
RECURSIVE IndicesWhere(_, _)
IndicesWhere(Keep(_), n) ==
  IF n = 0 THEN <<>>
  ELSE IF Keep(n - 1) THEN Append(IndicesWhere(Keep, n - 1), n - 1) ELSE IndicesWhere(Keep, n - 1)

C3_GenerationFailureIsolated ==
  \A i \in Indices(nFiles) :
    ((\E s \in ThumbSizes : thumbs[i][s] = "failed") /\ optResult.kind = "returned") =>
       /\ \A k \in DOMAIN optResult.errors : optResult.errors[k].index = i
       /\ \A j \in Indices(nFiles) \ {i} : progressMap[j].status # "error"

\* C4: when the thumbnail stage throws, the result is exactly
\* {success: false, images: [], errors: [{index: -1, error: message}]} and every
\* progress entry is error with that message; the errors entries of any other
\* result carry an index in 0..N-1.
C4_BatchFailureShape ==
  optResult.kind = "returned" =>
     IF GenerationFailed
     THEN \E e \in ThumbnailErrors :
            /\ optResult = Returned(FALSE, <<>>, <<[index |-> -1, error |-> e.message]>>)
            /\ \A i \in Indices(nFiles) :
                 progressMap[i].status = "error" /\ progressMap[i].error = e.message
     ELSE \A k \in DOMAIN optResult.errors : optResult.errors[k].index \in Indices(nFiles)

C4_Witness ==
  /\ optResult.kind = "returned"
  /\ GenerationFailed
  /\ nFiles = 2
  /\ Len(optResult.errors) = 1
  /\ progressMap[1].status = "error"

FallbackRan == pc = "fallback" \/ \E i \in Indices(nFiles) : fbPuts[i] # "none"

\* C5: the fallback runs exactly when the optimized uploader raised: a result it
\* returns, failed or not, is returned unchanged and no fallback put is issued;
\* when it raised and a client exists every file gets its fallback put.
C5_FallbackOnlyOnRaise ==
  /\ optResult.kind = "returned" => (result = optResult /\ ~FallbackRan)
  /\ FallbackRan => optResult.kind = "raised"
  /\ (optResult.kind = "raised" /\ clientOk) => \A i \in Indices(nFiles) : fbPuts[i] # "none"
  /\ (optResult.kind = "raised" /\ ~clientOk) => result.kind = "raised"

C5_Witness ==
  /\ optResult.kind = "returned"
  /\ ~optResult.success
  /\ Len(optResult.images) = 1
  /\ result = optResult

C5_WitnessFallback ==
  /\ optResult.kind = "raised"
  /\ nFiles = 2
  /\ result.kind = "returned"
  /\ Len(result.images) = 1

\* The path the fallback task of file i uploads.
FallbackPathOf(i) == OriginalPath(PropertyId, fbStamp[i], FileExt(FileName(i)))

\* C6: every record the optimized uploader returns has four non-empty, pairwise
\* distinct paths; every record the fallback returns has its four fields equal
\* to the one path that was uploaded for that file.
C6_RecordPaths ==
  /\ optResult.kind = "returned" =>
       \A k \in DOMAIN optResult.images :
          /\ \A s \in SizeSet : optResult.images[k][s] # ""
          /\ \A s, t \in SizeSet : s # t => optResult.images[k][s] # optResult.images[k][t]
  /\ (optResult.kind = "raised" /\ result.kind = "returned") =>
       \A k \in DOMAIN result.images :
          \E i \in Indices(nFiles) :
             /\ fbPuts[i] = "stored"
             /\ \A s \in SizeSet : result.images[k][s] = FallbackPathOf(i)

C6_Witness ==
  /\ optResult.kind = "returned"
  /\ Len(optResult.images) = 2

C6_WitnessFallback ==
  /\ optResult.kind = "raised"
  /\ result.kind = "returned"
  /\ Len(result.images) = 2

\* The paths of the puts the optimized tasks issued.
IssuedPaths ==
  { PutPath(BaseFileName(PropertyId, stamp[i]), s, FileExt(FileName(i))) :
      i \in {j \in Indices(nFiles) : puts[j]["original"] # "none"}, s \in SizeSet }

\* The optimized tasks have started: each has issued its puts.
TasksStarted == nFiles > 0 /\ \A i \in Indices(nFiles) : puts[i]["original"] # "none"

\* C7: within one batch the base paths of two different files differ and no two
\* of the 4N put paths coincide.
C7_UniqueKeys ==
  TasksStarted =>
     /\ \A i, j \in Indices(nFiles) :
          i # j => BaseFileName(PropertyId, stamp[i]) # BaseFileName(PropertyId, stamp[j])
     /\ Cardinality(IssuedPaths) = 4 * nFiles

C7_Witness ==
  /\ pc = "uploading"
  /\ nFiles = 2
  /\ stamp[0] = Epoch
  /\ stamp[1] = Epoch + 1
  /\ Cardinality(IssuedPaths) = 8

\* C8: in the state in which uploadImagesOptimized has returned, no progress
\* entry is generating or uploading.
C8_ReturnsAfterAllSettled ==
  optResult.kind = "returned" =>
     \A i \in Indices(nFiles) : progressMap[i].status \in {"completed", "error"}

C8_Witness ==
  /\ optResult.kind = "returned"
  /\ nFiles = 2
  /\ progressMap[0].status = "error"
  /\ progressMap[1].status = "completed"
  /\ puts[0]["large"] = "refused"

\* C9: the edit page issues its update only with a non-empty images list, and
\* issues none when files were selected and none of them was uploaded.
C9_NoEmptyImagesPersisted ==
  /\ dbUpdate.kind = "issued" => Len(dbUpdate.images) > 0
  /\ (caller = "onSubmit" /\ nFiles > 0 /\ pc \in {"updating", "done"}
        /\ (result.kind = "raised" \/ Len(result.images) = 0)) => dbUpdate = NoUpdate

C9_Witness ==
  /\ caller = "onSubmit"
  /\ pc = "done"
  /\ nFiles = 2
  /\ Len(existing) > 0
  /\ result.kind = "returned"
  /\ Len(result.images) = 0
  /\ dbUpdate = NoUpdate

\* The page after a fallback run that stored nothing.
C9_WitnessFallback ==
  /\ pc = "done"
  /\ optResult.kind = "raised"
  /\ result.kind = "returned"
  /\ Len(result.errors) = 2
  /\ Len(existing) > 0
  /\ dbUpdate = NoUpdate

C9_WitnessUpdate ==
  /\ dbUpdate.kind = "issued"
  /\ Len(existing) = 0
  /\ Len(dbUpdate.images) = 1
  /\ nFiles = 2

\* C13: in every result the optimized uploader or the wrapper (optimized or
\* fallback path) returns, success is true exactly when errors is empty, and a
\* successful result holds one image per file.
C13_SuccessIffNoErrors ==
  \A r \in {optResult, result} :
    r.kind = "returned" =>
       /\ r.success <=> (Len(r.errors) = 0)
       /\ r.success => Len(r.images) = nFiles

C13_Witness ==
  /\ optResult.kind = "returned"
  /\ optResult.success
  /\ nFiles = 2
  /\ Len(optResult.images) = 2

\* A fallback result with a failed file.
C13_WitnessFallback ==
  /\ optResult.kind = "raised"
  /\ result.kind = "returned"
  /\ ~result.success
  /\ Len(result.errors) = 1
  /\ Len(result.images) = 1

\* The task results a returned result was built from.
ResultsBehind(r) == IF r = optResult THEN taskRes ELSE fbRes

Succeeded(res, i) == res[i].kind = "data"

\* The position of the record of file i in the images of r (0 when absent).
PositionIn(r, i) ==
  LET at == {k \in DOMAIN r.images : r.images[k] = ResultsBehind(r)[i].data}
  IN  IF at = {} THEN 0 ELSE CHOOSE k \in at : TRUE

\* C14: the images of a result are the records of the successful files in the
\* order of their index, whatever the order in which the tasks returned: the
\* record of a successful file i precedes that of a successful file j > i, every
\* successful file has its record, and no slot is empty.
C14_ImagesInFileOrder ==
  \A r \in {optResult, result} :
    r.kind = "returned" =>
       LET res == ResultsBehind(r)
           ok == {i \in Indices(nFiles) : Succeeded(res, i)}
       IN  /\ Len(r.images) = Cardinality(ok)
           /\ \A k \in DOMAIN r.images : r.images[k] # Hole
           /\ \A i \in ok : PositionIn(r, i) > 0
           /\ \A i, j \in ok : i < j => PositionIn(r, i) < PositionIn(r, j)

\* File 1 returned before file 0 and both were stored.
C14_Witness ==
  /\ optResult.kind = "returned"
  /\ nFiles = 2
  /\ completion = <<1, 0>>
  /\ optResult.images = <<RecordOf(0), RecordOf(1)>>

\* The same on the fallback path.
C14_WitnessFallback ==
  /\ optResult.kind = "raised"
  /\ result.kind = "returned"
  /\ completion = <<1, 0>>
  /\ Len(result.images) = 2
  /\ result.images[1].original = FallbackPathOf(0)

\* The call has ended, and when it returned a result every file has ended as
\* completed or as error.
CallEnded ==
  /\ pc = "returned"
  /\ result.kind \in {"returned", "raised"}
  /\ clientOk =>
       /\ result.kind = "returned"
       /\ \A i \in Indices(nFiles) : progressMap[i].status \in {"completed", "error"}
       /\ \A i \in Indices(nFiles) : taskRes[i].kind = "none" => puts[i]["original"] = "none"

\* C15: when every generation and every put eventually settles, every call of
\* uploadImagesWithFallback eventually ends; with a client it returns a result,
\* every file has then ended as completed or as error, and no task is left
\* waiting for its puts.
C15_EventuallyReturns == (pc # "idle") ~> CallEnded

\* A call that went through generation and upload of two files and returned.
C15_Witness ==
  /\ CallEnded
  /\ observer = "ok"
  /\ nFiles = 2
  /\ Len(completion) = 2
  /\ progressMap[0].status = "completed"
  /\ progressMap[1].status = "error"

\* The (status, progress) pair of a progress entry.
Pair(e) == <<e.status, e.progress>>

\* The pairs of the transition table.
TablePairs == { <<"generating", 0>>, <<"uploading", 25>>, <<"completed", 100>>, <<"error", 0>> }

\* The moves of the transition table.
TableMoves ==
  { <<<<"generating", 0>>, <<"uploading", 25>>>>,
    <<<<"uploading", 25>>, <<"completed", 100>>>>,
    <<<<"generating", 0>>, <<"error", 0>>>>,
    <<<<"uploading", 25>>, <<"error", 0>>>> }

\* One step of the entries: an entry is created as (generating, 0), or as
\* (error, 0) when the call that creates it fails before its first await, and
\* then stays or makes a move of the table; its progress does not decrease
\* unless it becomes (error, 0).
TableStep ==
  \A i \in DOMAIN progressMap' :
    IF i \in DOMAIN progressMap
    THEN /\ Pair(progressMap'[i]) = Pair(progressMap[i])
            \/ <<Pair(progressMap[i]), Pair(progressMap'[i])>> \in TableMoves
         /\ progressMap'[i].progress >= progressMap[i].progress
            \/ Pair(progressMap'[i]) = <<"error", 0>>
    ELSE Pair(progressMap'[i]) \in { <<"generating", 0>>, <<"error", 0>> }

C16_WitnessCompleted ==
  /\ pc = "returned"
  /\ observer = "ok"
  /\ Len(snapshot) = 2
  /\ Pair(snapshot[1]) = <<"completed", 100>>
  /\ Pair(snapshot[2]) = <<"error", 0>>

Terminal(e) == e.status \in {"error", "completed"}

\* A put, once issued, is not issued again.
NoPutReissued ==
  \A i \in Indices(nFiles) : \A s \in SizeSet :
    /\ puts[i][s] # "none" => puts'[i][s] # "none"
    /\ puts[i][s] \notin {"none", "pending"} => puts'[i][s] # "pending"

C18_CompletedAfterFourPuts ==
  \A i \in DOMAIN progressMap :
    /\ progressMap[i].status = "completed" => AllStored(i)
    /\ taskRes[i].kind = "data" => AllStored(i) /\ progressMap[i].status = "completed"
    /\ (optResult.kind = "returned" /\ Occurrences(optResult.images, RecordOf(i)) > 0) => AllStored(i)
    /\ (\E s \in SizeSet : puts[i][s] \in {"pending", "resolved", "refused", "rejected", "detached"})
         => progressMap[i].status # "completed"

\* File 0 completed while puts of file 1 are still pending.
C18_Witness ==
  /\ pc = "uploading"
  /\ nFiles = 2
  /\ progressMap[0].status = "completed"
  /\ AllStored(0)
  /\ puts[1]["original"] = "resolved"
  /\ puts[1]["large"] = "pending"
  /\ progressMap[1].status = "uploading"

\* C19: when an observer is supplied, the snapshot it received last has one
\* entry per file and shows the entries as they are now, every step that
\* changes an entry calls it, and while the variants are generated it has been
\* called once, with every entry (generating, 0).
C19_ObserverNotified ==
  /\ []((observer # "none" /\ pc # "idle" /\ clientOk) =>
          /\ Len(snapshot) = nFiles
          /\ snapshot = Values(progressMap, nFiles)
          /\ pc = "generating" =>
               /\ notified = 1
               /\ \A k \in DOMAIN snapshot : Pair(snapshot[k]) = <<"generating", 0>>)
  /\ [][(observer # "none" /\ progressMap' # progressMap) => notified' > notified]_vars

\* The observer after the start, the start of two tasks and the end of one.
C19_Witness ==
  /\ observer = "ok"
  /\ pc = "uploading"
  /\ nFiles = 2
  /\ notified = 4
  /\ Len(snapshot) = 2
  /\ snapshot[2].status = "completed"
  /\ snapshot[1].status = "uploading"

\* The task of file i has started and has not returned.
InFlight(i) == pc = "uploading" /\ taskRes[i].kind = "none"

PutIssued(i) == \E s \in SizeSet : puts[i][s] # "none"

\* C21: a put of the optimized uploader is issued only when the three variants
\* of its image (of every image of the batch, in fact) exist, and when the
\* thumbnail stage failed no put of the optimized uploader was issued at all.
C21_NoPutBeforeVariants ==
  /\ \A i \in Indices(nFiles) :
       PutIssued(i) => \A j \in Indices(nFiles) : \A s \in ThumbSizes : thumbs[j][s] = "ready"
  /\ GenerationFailed => \A i \in Indices(nFiles) : ~PutIssued(i)

\* Generation failed for the second file after the first file's variants existed.
C21_Witness ==
  /\ nFiles = 2
  /\ optResult.kind = "returned"
  /\ \A s \in ThumbSizes : thumbs[0][s] = "ready"
  /\ thumbs[1]["large"] = "failed"
  /\ ~PutIssued(0)

\* Puts issued once all six variants exist.
C21_WitnessPuts ==
  /\ nFiles = 2
  /\ pc = "uploading"
  /\ PutIssued(0)
  /\ PutIssued(1)
  /\ AllReady(thumbs)

\* The fallback has returned its result.
FallbackReturned == optResult.kind = "raised" /\ result.kind = "returned"

\* C22: once the fallback runs every file has its one put, of its own original
\* path; in the result of the fallback a file whose put failed has one errors
\* entry with its index and no record, every other file has its record and no
\* errors entry, and images.length + errors.length = N.
C22_FallbackPerFile ==
  /\ FallbackRan =>
       /\ \A i \in Indices(nFiles) : fbPuts[i] # "none"
       /\ Cardinality({FallbackPathOf(i) : i \in Indices(nFiles)}) = nFiles
  /\ FallbackReturned =>
       /\ Len(result.images) + Len(result.errors) = nFiles
       /\ \A i \in Indices(nFiles) :
            IF fbPuts[i] = "stored"
            THEN /\ Occurrences(result.images, FallbackRecord(FallbackPathOf(i))) = 1
                 /\ ErrorsAt(result, i) = 0
            ELSE /\ fbPuts[i] \in {"refused", "rejected"}
                 /\ Occurrences(result.images, FallbackRecord(FallbackPathOf(i))) = 0
                 /\ ErrorsAt(result, i) = 1

\* The put of file 0 failed first and file 1 was still uploaded.
C22_Witness ==
  /\ FallbackReturned
  /\ nFiles = 2
  /\ completion = <<0, 1>>
  /\ fbPuts[0] = "rejected"
  /\ fbPuts[1] = "stored"
  /\ Len(result.images) = 1
  /\ result.errors[1].index = 0

\* C23: with an observer that does not throw and a client that can be built,
\* uploadImagesOptimized never raises, whatever the generations and the puts
\* do: the call ends with the result of the optimized uploader, no fallback put
\* is ever issued, and when the thumbnail stage failed no put was issued at all.
C23_OptimizedNeverRaises ==
  (observer # "throws" /\ clientOk) =>
     /\ optResult.kind # "raised"
     /\ ~FallbackRan
     /\ \A i \in Indices(nFiles) : fbPuts[i] = "none"
     /\ pc = "returned" => (optResult.kind = "returned" /\ result = optResult)
     /\ GenerationFailed => \A i \in Indices(nFiles) : ~PutIssued(i)

\* A failed thumbnail stage: a result, and nothing uploaded.
C23_Witness ==
  /\ observer = "ok"
  /\ clientOk
  /\ nFiles = 2
  /\ GenerationFailed
  /\ pc = "returned"
  /\ result.kind = "returned"
  /\ result.errors[1].index = -1
  /\ \A i \in Indices(nFiles) : fbPuts[i] = "none" /\ ~PutIssued(i)

\* A put promise rejected with a value that is no Error, and one returned an error.
C23_WitnessPuts ==
  /\ observer = "none"
  /\ clientOk
  /\ nFiles = 2
  /\ pc = "returned"
  /\ puts[0]["medium"] = "rejected"
  /\ puts[1]["original"] = "refused"
  /\ result.kind = "returned"
  /\ result.errors[1].error = "Upload failed"

\* The entries as the failed optimized attempt left them: every entry marked
\* by the batch-level handler with the observer's error.
FailedAttemptEntries ==
  [i \in Indices(nFiles) |-> MarkBatchError(InitialProgress(nFiles)[i], ObserverError)]

\* C25: the fallback leaves progress tracking as it is: no step of the fallback
\* changes a progress entry, the snapshot or the number of observer calls, so
\* during and after a fallback run the observer's last snapshot is the one of
\* the failed optimized attempt.
C25_FallbackLeavesProgress ==
  /\ [][pc = "fallback" => UNCHANGED <<progressMap, snapshot, notified>>]_vars
  /\ []((FallbackRan /\ clientOk) =>
          /\ progressMap = FailedAttemptEntries
          /\ snapshot = Values(FailedAttemptEntries, nFiles)
          /\ notified = 2)

\* A fallback run that stored one file and failed the other.
C25_Witness ==
  /\ FallbackReturned
  /\ nFiles = 2
  /\ fbPuts[0] = "stored"
  /\ fbPuts[1] = "refused"
  /\ Len(snapshot) = 2
  /\ snapshot[1].status = "error"
  /\ notified = 2

(***************************************************************************)
(* Properties of the image-format helpers.                                 *)
(***************************************************************************)
\* C10: normalizeImageData maps a bare path to a record whose four fields equal
\* it and returns a four-field record unchanged, keeps length and order, is
\* idempotent, and getImageUrl agrees on an image and its normalized form for
\* every size.
C10_NormalizeCompatible ==
  /\ phase # "input" =>
       /\ Len(normalized) = Len(imageList)
       /\ \A k \in DOMAIN imageList :
            IF IsString(imageList[k])
            THEN /\ DOMAIN normalized[k] = SizeSet
                 /\ \A s \in SizeSet : normalized[k][s] = imageList[k].value
            ELSE normalized[k] = imageList[k]
  /\ phase = "renormalized" => renormalized = normalized
  /\ lookup.kind = "done" => lookup.stored = lookup.normal

C10_Witness ==
  /\ phase = "renormalized"
  /\ Len(imageList) = 2
  /\ IsString(imageList[1])
  /\ ~IsString(imageList[2])
  /\ lookup.kind = "done"
  /\ lookup.index = 1
  /\ lookup.size = "small"

(***************************************************************************)
(* Properties of the thumbnail sizes.                                      *)
(***************************************************************************)
Abs(x) == IF x < 0 THEN -x ELSE x

Max(a, b) == IF a > b THEN a ELSE b

AllDrawn == \A s \in ThumbSizes : canvas[s].drawn

C11_WitnessPortrait ==
  /\ AllDrawn
  /\ imgHeight > imgWidth
  /\ canvas["large"].height = Presets["large"].maxHeight
  /\ canvas["small"].height = Presets["small"].maxHeight
  /\ canvas["medium"].width < imgWidth

\* C12: every variant fits inside its preset box: its width is at most the
\* preset's maxWidth and its height at most the preset's maxHeight.
C12_FitsPresetBox ==
  \A s \in ThumbSizes :
    canvas[s].drawn =>
       /\ canvas[s].width <= Presets[s].maxWidth
       /\ canvas[s].height <= Presets[s].maxHeight

\* The source's longer side (its height when the sides are equal) is within
\* the limit the preset of variant s sets for it.
LongerSideWithin(s) ==
  IF imgWidth > imgHeight
  THEN imgWidth <= Presets[s].maxWidth
  ELSE imgHeight <= Presets[s].maxHeight

\* C30: generateThumbnail never upscales: a variant's width is at most the
\* source's width and its height at most the source's height, and a source
\* whose longer side is within the preset's limit keeps its exact dimensions.
C30_NeverUpscales ==
  \A s \in ThumbSizes :
    canvas[s].drawn =>
       /\ canvas[s].width <= imgWidth
       /\ canvas[s].height <= imgHeight
       /\ LongerSideWithin(s) =>
            (canvas[s].width = imgWidth /\ canvas[s].height = imgHeight)

\* A 700 x 500 source: kept as it is by the large preset, scaled down by the
\* other two.
C30_Witness ==
  /\ AllDrawn
  /\ imgWidth = 700
  /\ imgHeight = 500
  /\ canvas["large"].width = 700
  /\ canvas["large"].height = 500
  /\ canvas["medium"].width = 600
  /\ canvas["small"].height < 500

\* A square source smaller than the small preset.
C30_WitnessSmall ==
  /\ AllDrawn
  /\ imgWidth = 150
  /\ imgHeight = 150
  /\ canvas["small"].width = 150
  /\ canvas["small"].height = 150

(***************************************************************************)
(* Properties of the storage paths across calls.                           *)
(***************************************************************************)
\* C24: for any two upload calls for the same property that started at
\* different clock times, no path derived in one equals a path derived in the
\* other.
C24_UniqueAcrossCalls ==
  \A a, b \in DOMAIN derived :
    (a # b /\ derived[a].at # derived[b].at) => derived[a].paths \cap derived[b].paths = {}

(***************************************************************************)
(* Properties of the auth store.                                           *)
(***************************************************************************)
\* C26: whatever the number of initialize() calls, overlapping ones included,
\* onAuthStateChange is subscribed at most once.
C26_SubscribesOnce == subscriptions <= 1

\* C27: in every state of the store, user is null exactly when session is null
\* and is session.user otherwise; and once an initialize() call has ended,
\* initialized is true and loading is false.
C27_UserFollowsSession ==
  /\ (user = NullUser) <=> (session = NoSession)
  /\ session # NoSession => user = session.user
  /\ finishedInits > 0 => (initialized /\ ~loading)

\* Two initialize() calls have ended, a logout has finished and a session
\* arrived afterwards.
C27_Witness ==
  /\ finishedInits = 2
  /\ subscriptions = 1
  /\ logoutCalls = 1
  /\ pendingLogouts = 0
  /\ session = SessionOf("u2")
  /\ user = "u2"


(***************************************************************************)
(* Properties of the favorite buttons.                                      *)
(***************************************************************************)
\* C28: when the insert or delete request of a toggleFavorite call fails, the
\* isFavorite flag shown once the call has ended is the one shown before the
\* click, on the card and on the detail page.
C28_FlagKeptOnFailure ==
  \A k \in DOMAIN toggled : ~toggled[k].ok => toggled[k].after = toggled[k].before


(***************************************************************************)
(* Properties of the address search box.                                    *)
(***************************************************************************)
\* C29: the result list belongs to the most recent user action: while that
\* action is clearSearch, emptying the input or selecting a result, no response
\* of a geocoding request in flight repopulates or reopens the list, and the
\* response of an older request never replaces the results of a newer one.
C29_ResultsOfLatestAction ==
  /\ [](lastAction.kind \in {"cleared", "emptied", "selected"} => ~ListOpen)
  /\ [][(searchResults # NoResults /\ searchResults' # NoResults)
          => searchResults'.request >= searchResults.request]_vars

====
